---- MODULE Spec2Model ----
(***************************************************************************)
(* google.api_core.iam.Policy: a role -> members mapping kept as an        *)
(* ordered list of binding dicts, with a version gate, legacy accessors    *)
(* and JSON-resource import/export.                                        *)
(*                                                                         *)
(* Python values are encoded as follows.                                   *)
(*   - Optional[x]: the empty set is None, {x} is the value x.             *)
(*   - a str used as a role: [name |-> text, id |-> object identity].      *)
(*     `==` on two role strings compares name, `is` compares the object.   *)
(*     id 0 is the module constant (OWNER_ROLE, ...); id 1 is another str  *)
(*     object with the same text (built or parsed elsewhere).              *)
(*   - a binding dict: [role, members, member]; members is the list under  *)
(*     'members', member is Optional: the list under the key 'member',     *)
(*     None when the dict has no such key.                                 *)
(*   - a resource dict: a function whose DOMAIN is the set of keys present.*)
(***************************************************************************)
EXTENDS Integers, Sequences, FiniteSets, TLC

VARIABLES etag, version, bindings, container, resource, last

vars == <<etag, version, bindings, container, resource, last>>

\* ---------------------------------------------------------------- bounds

MaxLen == 2

MaxBindings == 2

MaxResBindings == 2

\* ------------------------------------------------------------ value sets

None == {}

Some(x) == {x}

OWNER_ROLE == [name |-> "roles/owner", id |-> 0]

EDITOR_ROLE == [name |-> "roles/editor", id |-> 0]

VIEWER_ROLE == [name |-> "roles/viewer", id |-> 0]

OWNER_ROLES == <<OWNER_ROLE>>

EDITOR_ROLES == <<EDITOR_ROLE>>

VIEWER_ROLES == <<VIEWER_ROLE>>

\* A str object equal to OWNER_ROLE in text and distinct from it as an object.
OwnerCopy == [name |-> "roles/owner", id |-> 1]

NoKey == [name |-> "", id |-> 0]

\* The keys the mapping protocol is called with.
Keys == {OWNER_ROLE, OwnerCopy, EDITOR_ROLE}

\* The keys the legacy accessors use.
RoleConstants == {OWNER_ROLE, EDITOR_ROLE, VIEWER_ROLE}

Members == {"user:a"}

Values == UNION {[1..n -> Members] : n \in 0..MaxLen}

ResourceMembers == {"user:a", "group:g"}

ResourceValues == UNION {[1..n -> ResourceMembers] : n \in 0..MaxLen}

Etags == {None, Some("etag")}

Versions == {None, Some(1), Some(2)}

Range(s) == {s[i] : i \in 1..Len(s)}

\* ------------------------------------------------------------- Policy

\* list(set(value)): the distinct elements, in an order the set's hashing picks.
ListOfSet(value) ==
    LET S == Range(value)
    IN {s \in [1..Cardinality(S) -> S] : \A i, j \in 1..Cardinality(S) : i # j => s[i] # s[j]}

\* check_version with the comparison off by one: version 1 is refused too.
check_version_from_1(v) == v # None /\ \E n \in v : n >= 1

\* TRUE when __check_version__ raises InvalidOperationException.
check_version(v) == v # None /\ \E n \in v : n > 1

\* The index of the first binding whose role `is` key, 0 when there is none.
FirstIs(bs, key) ==
    LET hits == {i \in 1..Len(bs) : bs[i].role = key}
    IN IF hits = {} THEN 0 ELSE CHOOSE i \in hits : \A j \in hits : i <= j

\* dict.__eq__ on two binding dicts: same keys, and `==` on each value.
DictEq(b1, b2) ==
    /\ b1.role.name = b2.role.name
    /\ b1.members = b2.members
    /\ b1.member = b2.member

\* list.remove(b): the list without its first element equal to b.
Remove(bs, b) ==
    LET hits == {i \in 1..Len(bs) : DictEq(bs[i], b)}
        k == CHOOSE i \in hits : \A j \in hits : i <= j
    IN [i \in 1..(Len(bs) - 1) |-> IF i < k THEN bs[i] ELSE bs[i + 1]]

iter(bs) == [i \in 1..Len(bs) |-> bs[i].role]

len(bs) == Len(bs)

getitem(bs, key) ==
    LET i == FirstIs(bs, key)
    IN IF i = 0 THEN {} ELSE Range(bs[i].members)

\* __setitem__ past the version gate, with `val` the outcome of list(set(value)).
setitem(bs, kind, key, val) ==
    LET i == FirstIs(bs, key)
    IN IF i # 0
       THEN [err |-> "none", bindings |-> [bs EXCEPT ![i].member = Some(val)]]
       ELSE IF kind = "tuple"
            THEN [err |-> "AttributeError", bindings |-> bs]
            ELSE [err |-> "none",
                  bindings |-> Append(bs, [role |-> key, members |-> val, member |-> None])]

\* delitem that returns quietly, as a discard would, when no binding matches.
delitem_discard(bs, kind, key) ==
    LET i == FirstIs(bs, key)
    IN IF i = 0
       THEN [err |-> "none", bindings |-> bs]
       ELSE IF kind = "tuple"
            THEN [err |-> "AttributeError", bindings |-> bs]
            ELSE [err |-> "none", bindings |-> Remove(bs, bs[i])]

\* __delitem__ past the version gate.
delitem(bs, kind, key) ==
    LET i == FirstIs(bs, key)
    IN IF i = 0
       THEN [err |-> "KeyError", bindings |-> bs]
       ELSE IF kind = "tuple"
            THEN [err |-> "AttributeError", bindings |-> bs]
            ELSE [err |-> "none", bindings |-> Remove(bs, bs[i])]

\* The union the legacy getters build: Mapping.get(role, ()) is self[role].
legacy(bs, roles) == UNION {getitem(bs, roles[i]) : i \in 1..Len(roles)}

owners(bs) == legacy(bs, OWNER_ROLES)

editors(bs) == legacy(bs, EDITOR_ROLES)

viewers(bs) == legacy(bs, VIEWER_ROLES)

\* to_api_repr without the emptiness test on the bindings.
to_api_repr_always_bindings(e, v, bs) ==
    LET keys == (IF e # None THEN {"etag"} ELSE {})
                \cup (IF v # None THEN {"version"} ELSE {})
                \cup {"bindings"}
    IN [k \in keys |-> CASE k = "etag" -> e
                         [] k = "version" -> v
                         [] k = "bindings" -> bs]

to_api_repr(e, v, bs) ==
    LET keys == (IF e # None THEN {"etag"} ELSE {})
                \cup (IF v # None THEN {"version"} ELSE {})
                \cup (IF Len(bs) > 0 THEN {"bindings"} ELSE {})
    IN [k \in keys |-> CASE k = "etag" -> e
                         [] k = "version" -> v
                         [] k = "bindings" -> bs]

\* dict.get(key) on a resource: Optional.
Get(r, key) == IF key \in DOMAIN r THEN r[key] ELSE None

\* from_api_repr that builds cls(etag) and forgets the version.
from_api_repr_no_version(r) ==
    [etag |-> Get(r, "etag"),
     version |-> None,
     bindings |-> IF "bindings" \in DOMAIN r THEN r["bindings"] ELSE <<>>,
     container |-> IF "bindings" \in DOMAIN r THEN "list" ELSE "tuple"]

\* The policy from_api_repr builds: cls(etag, version), then the bindings setter.
from_api_repr(r) ==
    [etag |-> Get(r, "etag"),
     version |-> Get(r, "version"),
     bindings |-> IF "bindings" \in DOMAIN r THEN r["bindings"] ELSE <<>>,
     container |-> IF "bindings" \in DOMAIN r THEN "list" ELSE "tuple"]

\* ---------------------------------------------------------------- inputs

NoResource == [none |-> TRUE]

\* Resources with no "bindings" key.
BareResources ==
    {[k \in ks |-> IF k = "etag" THEN Some("etag") ELSE v] :
        ks \in SUBSET {"etag", "version"}, v \in Versions \ {None}}

ResourceRoles == {OwnerCopy, [name |-> "roles/editor", id |-> 1]}

ResourceBindings == {[role |-> r, members |-> m, member |-> None] : r \in ResourceRoles, m \in ResourceValues}

\* Resources whose "bindings" is a non-empty list.
FullResources ==
    {[k \in ks \cup {"bindings"} |->
        CASE k = "etag" -> Some("etag") [] k = "version" -> v [] k = "bindings" -> bs] :
        ks \in SUBSET {"etag", "version"}, v \in Versions \ {None},
        bs \in UNION {[1..n -> ResourceBindings] : n \in 1..MaxResBindings}}

Call(op, key, value, err, out) ==
    [op |-> op, key |-> key, value |-> value, err |-> err, out |-> out, warnings |-> 0]

\* ------------------------------------------------------------------ Init

\* Policy(etag, version)
Construct ==
    /\ etag \in Etags
    /\ version \in Versions
    /\ bindings = <<>>
    /\ container = "list"
    /\ resource = NoResource
    /\ last = Call("init", NoKey, <<>>, "none", {})

Load(r) ==
    LET p == from_api_repr(r)
    IN /\ etag = p.etag
       /\ version = p.version
       /\ bindings = p.bindings
       /\ container = p.container
       /\ resource = r
       /\ last = Call("from_api_repr", NoKey, <<>>, "none", {})

Init == Construct \/ \E r \in BareResources : Load(r)

InitRT == \E r \in FullResources \cup BareResources : Load(r)

\* --------------------------------------------------------------- actions

Raise(op, key, value) ==
    /\ last' = Call(op, key, value, "InvalidOperationException", {})
    /\ UNCHANGED <<etag, version, bindings, container, resource>>

Read(op, key, out) ==
    IF check_version(version)
    THEN Raise(op, key, <<>>)
    ELSE /\ last' = Call(op, key, <<>>, "none", out)
         /\ UNCHANGED <<etag, version, bindings, container, resource>>

CallIter == Read("iter", NoKey, iter(bindings))

CallLen == Read("len", NoKey, len(bindings))

CallGetitem(K) == \E key \in K : Read("getitem", key, getitem(bindings, key))

Write(op, key, value, warned) ==
    IF check_version(version)
    THEN /\ last' = [Call(op, key, value, "InvalidOperationException", {}) EXCEPT !.warnings = warned]
         /\ UNCHANGED <<etag, version, bindings, container, resource>>
    ELSE /\ FirstIs(bindings, key) # 0 \/ Len(bindings) < MaxBindings
         /\ \E val \in ListOfSet(value) :
              LET r == setitem(bindings, container, key, val)
              IN /\ bindings' = r.bindings
                 /\ last' = [Call(op, key, value, r.err, {}) EXCEPT !.warnings = warned]
         /\ UNCHANGED <<etag, version, container, resource>>

CallSetitem(K) == \E key \in K, value \in Values : Write("setitem", key, value, 0)

CallDelitem(K) ==
    \E key \in K :
        IF check_version(version)
        THEN Raise("delitem", key, <<>>)
        ELSE LET r == delitem(bindings, container, key)
             IN /\ bindings' = r.bindings
                /\ last' = Call("delitem", key, <<>>, r.err, {})
                /\ UNCHANGED <<etag, version, container, resource>>

CallOwners == Read("owners", NoKey, owners(bindings))

CallEditors == Read("editors", NoKey, editors(bindings))

CallViewers == Read("viewers", NoKey, viewers(bindings))

\* warnings.warn(...), then self[OWNER_ROLE] = value
owners_setter(value) == Write("owners.setter", OWNER_ROLE, value, 1)

editors_setter(value) == Write("editors.setter", EDITOR_ROLE, value, 1)

\* viewers.setter pasted from editors.setter with the role left as it was.
viewers_setter_editor_role(value) == Write("viewers.setter", EDITOR_ROLE, value, 1)

viewers_setter(value) == Write("viewers.setter", VIEWER_ROLE, value, 1)

CallOwnersSetter == \E value \in Values : owners_setter(value)

CallEditorsSetter == \E value \in Values : editors_setter(value)

CallViewersSetter == \E value \in Values : viewers_setter(value)

CallToApiRepr ==
    /\ last' = Call("to_api_repr", NoKey, <<>>, "none", to_api_repr(etag, version, bindings))
    /\ UNCHANGED <<etag, version, bindings, container, resource>>

Next ==
    \/ CallIter
    \/ CallLen
    \/ CallGetitem(Keys)
    \/ CallSetitem(Keys)
    \/ CallDelitem(Keys)
    \/ CallToApiRepr

Spec == Init /\ [][Next]_vars

NextLegacy ==
    \/ CallOwners
    \/ CallEditors
    \/ CallViewers
    \/ CallOwnersSetter
    \/ CallEditorsSetter
    \/ CallViewersSetter
    \/ CallGetitem(RoleConstants)
    \/ CallSetitem(RoleConstants)
    \/ CallDelitem(RoleConstants)

SpecLegacy == Init /\ [][NextLegacy]_vars

NextRT == CallToApiRepr

SpecRT == InitRT /\ [][NextRT]_vars

\* ---------------------------------------------------------------- claims

\* The version is set and greater than 1.
Above1(v) == \E n \in v : n > 1

\* bs holds a binding for the role key names (`==` on the role strings).
HasRole(bs, key) == \E i \in 1..Len(bs) : bs[i].role.name = key.name

\* The policy was built by Policy(etag, version), not loaded from a resource.
Constructed == resource = NoResource

\* The number of times m occurs in the list s.
Count(s, m) == Cardinality({i \in 1..Len(s) : s[i] = m})

\* Two resources equal up to the order of the members inside each binding.
SameUpToMemberOrder(a, b) ==
    /\ DOMAIN a = DOMAIN b
    /\ "etag" \in DOMAIN a => a["etag"] = b["etag"]
    /\ "version" \in DOMAIN a => a["version"] = b["version"]
    /\ "bindings" \in DOMAIN a =>
         /\ Len(a["bindings"]) = Len(b["bindings"])
         /\ \A i \in 1..Len(a["bindings"]) :
              /\ a["bindings"][i].role = b["bindings"][i].role
              /\ a["bindings"][i].member = b["bindings"][i].member
              /\ \A m \in ResourceMembers :
                   Count(a["bindings"][i].members, m) = Count(b["bindings"][i].members, m)

\* C1: on a constructed policy whose version is unset or 1, after
\* set(role, members) a get(role) returns exactly the distinct members given.
C1_SetThenGet ==
    (Constructed /\ ~Above1(version) /\ last.op = "setitem")
        => getitem(bindings, last.key) = Range(last.value)

\* C2: a policy constructed empty and changed by set and delete holds at most
\* one binding per role.
C2_OneBindingPerRole ==
    Constructed =>
        \A i, j \in 1..Len(bindings) :
            i # j => bindings[i].role.name # bindings[j].role.name

GatedOps == {"getitem", "setitem", "delitem", "iter", "len"}

\* C3: get, set, delete, iterate and length fail with InvalidOperationException
\* and leave bindings, etag and version as they were when the version is above 1,
\* and do not raise that error when the version is 1 or unset.
C3_VersionGate ==
    [][last'.op \in GatedOps =>
          IF Above1(version)
          THEN /\ last'.err = "InvalidOperationException"
               /\ bindings' = bindings /\ etag' = etag /\ version' = version
          ELSE last'.err # "InvalidOperationException"]_vars

C3_Witness ==
    /\ version = Some(2)
    /\ last.op = "setitem"
    /\ last.err = "InvalidOperationException"
    /\ bindings = <<>>

\* C4: delete(role) on a policy with no binding for role fails with KeyError
\* and leaves the binding list as it was, in content and order.
C4_DeleteMissing ==
    [][(last'.op = "delitem" /\ ~Above1(version) /\ ~HasRole(bindings, last'.key))
          => (last'.err = "KeyError" /\ bindings' = bindings)]_vars

C4_Witness ==
    /\ last.op = "delitem"
    /\ last.err = "KeyError"
    /\ Len(bindings) > 0
    /\ ~HasRole(bindings, last.key)

\* C5: delete(role) on a constructed policy that has a binding for role removes
\* that binding and nothing else: get(role) is then empty, iterate no longer
\* yields role, length is one less and get of every other role is as before.
C5_DeleteRemoves ==
    [][(Constructed /\ last'.op = "delitem" /\ ~Above1(version)
            /\ HasRole(bindings, last'.key))
          => /\ getitem(bindings', last'.key) = {}
             /\ ~HasRole(bindings', last'.key)
             /\ len(bindings') = len(bindings) - 1
             /\ \A k \in Keys :
                  k.name # last'.key.name => getitem(bindings', k) = getitem(bindings, k)]_vars

\* C6: to_resource(from_resource(r)) equals r up to the order of the members
\* inside each binding, for every r whose bindings is a non-empty list.
C6_RoundTrip ==
    "bindings" \in DOMAIN resource
        => SameUpToMemberOrder(to_api_repr(etag, version, bindings), resource)

C6_Witness ==
    /\ last.op = "to_api_repr"
    /\ DOMAIN resource = {"etag", "version", "bindings"}
    /\ Len(resource["bindings"]) = 2
    /\ Len(resource["bindings"][1].members) = 2
    /\ last.out = resource

\* C7: to_resource holds the key etag iff etag is not None, the key version iff
\* version is not None and the key bindings iff the binding list is not empty,
\* and no key it holds has the value None.
C7_FieldOmission ==
    LET out == to_api_repr(etag, version, bindings)
    IN /\ "etag" \in DOMAIN out <=> etag # None
       /\ "version" \in DOMAIN out <=> version # None
       /\ "bindings" \in DOMAIN out <=> Len(bindings) > 0
       /\ \A k \in DOMAIN out \cap {"etag", "version"} : out[k] # None
       /\ last.op = "to_api_repr" => last.out = out

\* The binding list is empty again after a delete, and to_resource omits it.
C7_Witness ==
    /\ last.op = "delitem"
    /\ last.err = "none"
    /\ bindings = <<>>
    /\ etag = None
    /\ version = Some(1)
    /\ DOMAIN to_api_repr(etag, version, bindings) = {"version"}

Tiers ==
    {[get |-> "owners", set |-> "owners.setter", role |-> [name |-> "roles/owner", id |-> 0]],
     [get |-> "editors", set |-> "editors.setter", role |-> [name |-> "roles/editor", id |-> 0]],
     [get |-> "viewers", set |-> "viewers.setter", role |-> [name |-> "roles/viewer", id |-> 0]]}

C9_LoadedWithoutBindings ==
    (~Constructed /\ "bindings" \notin DOMAIN resource /\ ~Above1(version))
        => /\ last.err \in {"none", "KeyError"}
           /\ last.op = "setitem" => HasRole(bindings, last.key)

\* C10: on a constructed policy, set on a role with no binding puts the role
\* last in iteration order and raises the length by one, and set on a role
\* that has a binding changes neither the order nor the length.
C10_SetKeepsOrder ==
    [][(Constructed /\ last'.op = "setitem" /\ ~Above1(version))
          => IF HasRole(bindings, last'.key)
             THEN iter(bindings') = iter(bindings) /\ len(bindings') = len(bindings)
             ELSE /\ iter(bindings') = Append(iter(bindings), last'.key)
                  /\ len(bindings') = len(bindings) + 1]_vars

====
